---------------------------- MODULE Spec2Model ----------------------------
(***************************************************************************)
(* SimSIMD kernels of include/simsimd/binary.h (Hamming and Jaccard over   *)
(* 8-bit bitsets: serial, NEON, SVE, AVX-512) and of                       *)
(* include/simsimd/x86_avx2_i8.h (L2 squared, cosine and inner product     *)
(* over signed 8-bit integers, AVX2).                                      *)
(*                                                                         *)
(* One kernel call is one behaviour: Init is the state on entry to the     *)
(* function (arguments bound, locals initialised), every action is one     *)
(* pass of one of its loops, its horizontal reduction, or its return.      *)
(* Vector registers are sequences of bytes (least significant first), so   *)
(* that reinterpreting 16-bit lanes as 32-bit lanes is what it is on the   *)
(* machine.                                                                *)
(*                                                                         *)
(* Widths.  In x86_avx2_i8.h the magnitudes come from the element values,  *)
(* which the model keeps whole: int and the accumulator lanes are 32 bits  *)
(* wide, as in the library.  In binary.h they come from the length.        *)
(* simsimd_size_t (64 bits) and unsigned int (32 bits) cannot be explored  *)
(* to their ends, so the model keeps their modular arithmetic at the       *)
(* reduced widths SizeBits and UIntBits, with UIntBits < SizeBits - 1 as   *)
(* 32 < 63, and the simsimd_i32_t counters of binary.h at the reduced      *)
(* width CounterBits, with 8 * SIZE_MAX beyond the top of a counter as     *)
(* 8 * 2^28 is beyond 2^31 - 1.  Every chunk width (16, 32, 64) divides    *)
(* 2^SizeBits and 2^UIntBits as it divides 2^64 and 2^32, so an index      *)
(* wraps, and a cast truncates, at the same residues.  The 64-bit lanes of *)
(* the AVX-512 accumulators, which hold 8 * n up to n = 2^61 - 1, are kept *)
(* as integers.                                                            *)
(***************************************************************************)
EXTENDS Integers, Sequences, FiniteSets, TLC

\* Width of simsimd_size_t in the model (64 in the library).
SizeBits == 9
\* Width of unsigned int in the model (32 in the library).
UIntBits == 7
\* Width of the simsimd_i32_t counters of binary.h in the model (32 in the
\* library).
CounterBits == 11
\* How far below the top of the size type the longest lengths start.
EdgeSpan == 17

Size == 2 ^ SizeBits
SIZE_MAX == Size - 1
UIntSize == 2 ^ UIntBits
\* The largest object an implementation supports: PTRDIFF_MAX bytes.
PTRDIFF_MAX == 2 ^ (SizeBits - 1) - 1
INT32_MAX == 32767 * 65536 + 65535
INT32_MIN == (-32768) * 65536

----------------------------------------------------------------------------
(* Plain arithmetic helpers. *)

RECURSIVE SumSeq(_)
SumSeq(s) == IF s = <<>> THEN 0 ELSE Head(s) + SumSeq(Tail(s))

Bit(x, k) == (x \div (2 ^ k)) % 2

\* x & ~y: a faulty stand-in for x ^ y that is not symmetric in its operands.
BitAndNot(x, y) == SumSeq([k \in 1..8 |-> (Bit(x, k - 1) * (1 - Bit(y, k - 1))) * 2 ^ (k - 1)])

\* C's x ^ y, x & y, x | y on bytes.
BitXor(x, y) == SumSeq([k \in 1..8 |-> ((Bit(x, k - 1) + Bit(y, k - 1)) % 2) * 2 ^ (k - 1)])
BitAnd(x, y) == SumSeq([k \in 1..8 |-> (Bit(x, k - 1) * Bit(y, k - 1)) * 2 ^ (k - 1)])
BitOr(x, y) == x + y - BitAnd(x, y)

\* The number of set bits of a byte: what the population-count instructions
\* (vcntq_u8, svcnt_u8_x, _mm512_popcnt_epi64) compute per byte.
CountBits(x) == SumSeq([k \in 1..8 |-> Bit(x, k - 1)])

\* A signed 8-bit value as the byte that stores it, and back.
ToByte(x) == x % 256
ToInt8(u) == IF u < 128 THEN u ELSE u - 256

\* 32-bit signed addition as the machine does it: wraps modulo 2^32.
AddOverflows32(x, y) ==
    \/ x > 0 /\ y > 0 /\ x > INT32_MAX - y
    \/ x < 0 /\ y < 0 /\ x < INT32_MIN - y
Add32(x, y) ==
    IF x > 0 /\ y > 0 /\ x > INT32_MAX - y
      THEN (x - INT32_MAX - 1) + (y - INT32_MAX - 1)
    ELSE IF x < 0 /\ y < 0 /\ x < INT32_MIN - y
      THEN (x + INT32_MAX + 1) + (y + INT32_MAX + 1)
    ELSE x + y
Abs(x) == IF x < 0 THEN -x ELSE x

\* x += y on a simsimd_i32_t counter of binary.h: the two's complement wrap
\* the add instruction produces when the sum passes the top of the counter.
i32_add(x, y) ==
    ((x + y + 2 ^ (CounterBits - 1)) % 2 ^ CounterBits) - 2 ^ (CounterBits - 1)
MulOverflows32(x, y) ==
    /\ x # 0
    /\ y # 0
    /\ \/ x = INT32_MIN
       \/ y = INT32_MIN
       \/ Abs(y) > INT32_MAX \div Abs(x)

\* (simsimd_f32_t)x for a 32-bit integer x: round to nearest, ties to even,
\* on a 24-bit significand.  The float is sig * ulp.
RECURSIVE F32Ulp(_, _)
F32Ulp(m, u) == IF m \div u < 16777216 THEN u ELSE F32Ulp(m, 2 * u)
f32_of_int(x) ==
    IF x = INT32_MIN THEN [sig |-> -8388608, ulp |-> 256]
    ELSE LET m == Abs(x)
             u == F32Ulp(m, 1)
             q == m \div u
             r == m % u
             up == (2 * r > u) \/ (2 * r = u /\ q % 2 = 1)
             s == IF up THEN q + 1 ELSE q
         IN  [sig |-> IF x < 0 THEN -s ELSE s, ulp |-> u]

----------------------------------------------------------------------------
(* The kernels and their inputs. *)

SerialKernels == {"simsimd_serial_b8_hamming", "simsimd_serial_b8_jaccard"}
NeonKernels == {"simsimd_neon_b8_hamming", "simsimd_neon_b8_jaccard"}
SveKernels == {"simsimd_sve_b8_hamming", "simsimd_sve_b8_jaccard"}
Avx512Kernels == {"simsimd_avx512_b8_hamming", "simsimd_avx512_b8_jaccard"}
Avx2Kernels == {"simsimd_avx2_i8_l2sq", "simsimd_avx2_i8_cos", "simsimd_avx2_i8_ip"}
B8Kernels == SerialKernels \cup NeonKernels \cup SveKernels \cup Avx512Kernels
HammingKernels == {"simsimd_serial_b8_hamming", "simsimd_neon_b8_hamming",
                   "simsimd_sve_b8_hamming", "simsimd_avx512_b8_hamming"}
JaccardKernels == B8Kernels \ HammingKernels
Kernels == B8Kernels \cup Avx2Kernels

\* svcntb(): the bytes of one SVE vector, fixed by the hardware.
SveVectorBytes == {16, 32}

\* An operand is held as the period it repeats: element idx of operand p.
At(p, idx) == p[(idx % Len(p)) + 1]

B8Operands == {<<0>>, <<255, 0>>, <<165, 15, 128>>, <<1, 254, 60, 255, 7>>}
I8Operands == {<<0>>, <<1, 2, 3, 4>>, <<1, 0, 0, 0>>, <<0, 1, 0, 0>>, <<-128>>,
               <<127>>, <<-1, 3, -128, 100, 0>>}

\* Zero, one, W-1, W, W+1 and 2W+3 for W = 16, 32, 64, the first lengths the
\* unsigned-int cast truncates, and the lengths at the top of the size type.
Lengths ==
    {0, 1, 2, 3, 4, 8, 15, 16, 17, 31, 32, 33, 35, 63, 64, 65, 67, 131}
      \cup {UIntSize - 1, UIntSize, UIntSize + 3}
      \cup {SIZE_MAX - EdgeSpan, SIZE_MAX - 16, SIZE_MAX - 15, SIZE_MAX}

\* No loop of the model runs more than this many vector passes.
PassCap == Size \div 16 + 2

----------------------------------------------------------------------------
VARIABLES
    kernel,      \* the function called
    a, b,        \* the operands
    n,           \* the length argument as passed (n_words, d)
    vl,          \* svcntb() of the machine (0 off SVE)
    pc,          \* where the call is
    i,           \* the running index
    n_words,     \* the AVX-512 kernels' length parameter, which they count down
    ptr,         \* how far the AVX-512 kernels have advanced a and b
    differences, intersection, union_,       \* scalar accumulators of binary.h
    differences_ba,                          \* differences of the same call on (b, a)
    differences_vec, intersection_vec, union_vec,   \* __m512i accumulators
    differences_vec_ba,                      \* differences_vec of the same call on (b, a)
    d2_vec, ab_vec, a2_vec, b2_vec,          \* __m256i accumulators
    d2, ab, a2, b2,                          \* reduced sums of x86_avx2_i8.h
    result,      \* the value returned
    passes,      \* vector passes executed so far
    rd,          \* the operand elements the last pass loaded
    events       \* integer intermediates that left their width

args == <<kernel, a, b, n, vl>>
b8acc == <<differences, intersection, union_>>
b8vec == <<differences_vec, intersection_vec, union_vec>>
i8vec == <<d2_vec, ab_vec, a2_vec, b2_vec>>
i8acc == <<d2, ab, a2, b2>>
mirror == <<differences_ba, differences_vec_ba>>
vars == <<args, pc, i, n_words, ptr, b8acc, b8vec, mirror, i8vec, i8acc, result, passes, rd, events>>

Zero(len) == [k \in 1..len |-> 0]
NoRead == [kind |-> "none", base |-> 0, lanes |-> {}, rem |-> 0, width |-> 0]
Scalar(idx, rem) == [kind |-> "scalar", base |-> idx, lanes |-> {0}, rem |-> rem, width |-> 1]

Init ==
    /\ kernel \in Kernels
    /\ a \in (IF kernel \in B8Kernels THEN B8Operands ELSE I8Operands)
    /\ b \in (IF kernel \in B8Kernels THEN B8Operands ELSE I8Operands)
    /\ n \in Lengths
    /\ vl \in (IF kernel \in SveKernels THEN SveVectorBytes ELSE {0})
    /\ pc = "start"
    /\ i = 0
    /\ n_words = n
    /\ ptr = 0
    /\ differences = 0 /\ intersection = 0 /\ union_ = 0
    /\ differences_ba = 0 /\ differences_vec_ba = Zero(8)
    /\ differences_vec = Zero(8) /\ intersection_vec = Zero(8) /\ union_vec = Zero(8)
    /\ d2_vec = Zero(32) /\ ab_vec = Zero(32) /\ a2_vec = Zero(32) /\ b2_vec = Zero(32)
    /\ d2 = 0 /\ ab = 0 /\ a2 = 0 /\ b2 = 0
    /\ result = "none"
    /\ passes = 0
    /\ rd = NoRead
    /\ events = {}

----------------------------------------------------------------------------
(* binary.h *)

simsimd_popcount_b8_table ==
    << 0, 1, 1, 2, 1, 2, 2, 3, 1, 2, 2, 3, 2, 3, 3, 4, 1, 2, 2, 3, 2, 3, 3, 4, 2, 3, 3, 4, 3, 4, 4, 5,
       1, 2, 2, 3, 2, 3, 3, 4, 2, 3, 3, 4, 3, 4, 4, 5, 2, 3, 3, 4, 3, 4, 4, 5, 3, 4, 4, 5, 4, 5, 5, 6,
       1, 2, 2, 3, 2, 3, 3, 4, 2, 3, 3, 4, 3, 4, 4, 5, 2, 3, 3, 4, 3, 4, 4, 5, 3, 4, 4, 5, 4, 5, 5, 6,
       2, 3, 3, 4, 3, 4, 4, 5, 3, 4, 4, 5, 4, 5, 5, 6, 3, 4, 4, 5, 4, 5, 5, 6, 4, 5, 5, 6, 5, 6, 6, 7,
       1, 2, 2, 3, 2, 3, 3, 4, 2, 3, 3, 4, 3, 4, 4, 5, 2, 3, 3, 4, 3, 4, 4, 5, 3, 4, 4, 5, 4, 5, 5, 6,
       2, 3, 3, 4, 3, 4, 4, 5, 3, 4, 4, 5, 4, 5, 5, 6, 3, 4, 4, 5, 4, 5, 5, 6, 4, 5, 5, 6, 5, 6, 6, 7,
       2, 3, 3, 4, 3, 4, 4, 5, 3, 4, 4, 5, 4, 5, 5, 6, 3, 4, 4, 5, 4, 5, 5, 6, 4, 5, 5, 6, 5, 6, 6, 7,
       3, 4, 4, 5, 4, 5, 5, 6, 4, 5, 5, 6, 5, 6, 6, 7, 4, 5, 5, 6, 5, 6, 6, 7, 5, 6, 6, 7, 6, 7, 7, 8 >>

simsimd_popcount_b8(x) == simsimd_popcount_b8_table[x + 1]

\* (union_ != 0) ? 1 - (simsimd_f32_t)intersection / (simsimd_f32_t)union_ : 0
\* The quotient is kept as the pair of floats divided; "divided" says whether
\* the division was evaluated.
jaccard_result(inter, uni) ==
    IF uni # 0
      THEN [divided |-> TRUE, num |-> f32_of_int(inter), den |-> f32_of_int(uni)]
      ELSE [divided |-> FALSE, num |-> f32_of_int(0), den |-> f32_of_int(1)]

\* for (simsimd_size_t i = 0; i != n_words; ++i)
serial_loop_test(idx, len) == idx # len

\* differences += simsimd_popcount_b8(a[i] ^ b[i]);
scalar_hamming_term(pa, pb, idx) == simsimd_popcount_b8(BitXor(At(pa, idx), At(pb, idx)))

simsimd_serial_b8_hamming_step_enabled ==
    /\ kernel = "simsimd_serial_b8_hamming"
    /\ pc \in {"start", "loop"}
    /\ serial_loop_test(i, n)

simsimd_serial_b8_hamming_step ==
    /\ simsimd_serial_b8_hamming_step_enabled
    /\ differences' = i32_add(differences, scalar_hamming_term(a, b, i))
    /\ differences_ba' = i32_add(differences_ba, scalar_hamming_term(b, a, i))
    /\ i' = (i + 1) % Size
    /\ rd' = Scalar(i, n - i)
    /\ pc' = "loop"
    /\ UNCHANGED <<args, n_words, ptr, intersection, union_, b8vec, differences_vec_ba,
                   i8vec, i8acc, result, passes, events>>

simsimd_serial_b8_hamming_return_enabled ==
    /\ kernel = "simsimd_serial_b8_hamming"
    /\ pc \in {"start", "loop"}
    /\ ~serial_loop_test(i, n)

simsimd_serial_b8_hamming_return ==
    /\ simsimd_serial_b8_hamming_return_enabled
    /\ result' = f32_of_int(differences)
    /\ pc' = "done"
    /\ UNCHANGED <<args, i, n_words, ptr, b8acc, b8vec, mirror, i8vec, i8acc, passes, rd, events>>

simsimd_serial_b8_jaccard_step_enabled ==
    /\ kernel = "simsimd_serial_b8_jaccard"
    /\ pc \in {"start", "loop"}
    /\ serial_loop_test(i, n)

simsimd_serial_b8_jaccard_step ==
    /\ simsimd_serial_b8_jaccard_step_enabled
    /\ intersection' = i32_add(intersection, simsimd_popcount_b8(BitAnd(At(a, i), At(b, i))))
    /\ union_' = i32_add(union_, simsimd_popcount_b8(BitOr(At(a, i), At(b, i))))
    /\ i' = (i + 1) % Size
    /\ rd' = Scalar(i, n - i)
    /\ pc' = "loop"
    /\ UNCHANGED <<args, n_words, ptr, differences, b8vec, mirror, i8vec, i8acc,
                   result, passes, events>>

simsimd_serial_b8_jaccard_return_enabled ==
    /\ kernel = "simsimd_serial_b8_jaccard"
    /\ pc \in {"start", "loop"}
    /\ ~serial_loop_test(i, n)

simsimd_serial_b8_jaccard_return ==
    /\ simsimd_serial_b8_jaccard_return_enabled
    /\ result' = jaccard_result(intersection, union_)
    /\ pc' = "done"
    /\ UNCHANGED <<args, i, n_words, ptr, b8acc, b8vec, mirror, i8vec, i8acc, passes, rd, events>>

----------------------------------------------------------------------------
(* Loads.  An element at or past the length is outside the operand: what   *)
(* such a load returns is not defined, so it is any of the bytes of        *)
(* Garbage, the same for every such lane of one pass.                      *)

Garbage == {0, 255}
JunkFor(base, lanes) == IF \A k \in lanes : base + k < n THEN {0} ELSE Garbage
LoadByte(p, idx, junk) == IF idx < n THEN ToByte(At(p, idx)) ELSE junk
Lanes(width) == 0..(width - 1)
Full(base, width, rem) ==
    [kind |-> "full", base |-> base, lanes |-> Lanes(width), rem |-> rem, width |-> width]
Partial(base, lanes, width, rem) ==
    [kind |-> "partial", base |-> base, lanes |-> lanes, rem |-> rem, width |-> width]

----------------------------------------------------------------------------
(* NEON *)

vld1q_u8(p, base, junk) == [k \in 1..16 |-> LoadByte(p, base + k - 1, junk)]
veorq_u8(x, y) == [k \in 1..16 |-> BitXor(x[k], y[k])]
vandq_u8(x, y) == [k \in 1..16 |-> BitAnd(x[k], y[k])]
vorrq_u8(x, y) == [k \in 1..16 |-> BitOr(x[k], y[k])]
vcntq_u8(x) == [k \in 1..16 |-> CountBits(x[k])]
\* The sum of the sixteen lanes, as the uint8_t it is returned in.
vaddvq_u8(x) == SumSeq(x) % 256

\* for (; i + 16 <= n_words; i += 16), in simsimd_size_t arithmetic
neon_loop_test(idx, len) == (idx + 16) % Size <= len
IndexWrap(idx, step) == IF idx + step >= Size THEN {"index_wrap"} ELSE {}
neon_at_tail == pc = "tail" \/ (pc \in {"start", "chunk"} /\ ~neon_loop_test(i, n))

\* differences += vaddvq_u8(vcntq_u8(veorq_u8(a_first, b_first)));
neon_hamming_term(pa, pb, base, junk) ==
    LET a_first == vld1q_u8(pa, base, junk)
        b_first == vld1q_u8(pb, base, junk)
    IN  vaddvq_u8(vcntq_u8(veorq_u8(a_first, b_first)))

simsimd_neon_b8_hamming_chunk_enabled ==
    /\ kernel = "simsimd_neon_b8_hamming"
    /\ pc \in {"start", "chunk"}
    /\ neon_loop_test(i, n)
    /\ passes < PassCap

simsimd_neon_b8_hamming_chunk ==
    /\ simsimd_neon_b8_hamming_chunk_enabled
    /\ \E junk \in JunkFor(i, Lanes(16)) :
         /\ differences' = i32_add(differences, neon_hamming_term(a, b, i, junk))
         /\ differences_ba' = i32_add(differences_ba, neon_hamming_term(b, a, i, junk))
    /\ i' = (i + 16) % Size
    /\ events' = events \cup IndexWrap(i, 16)
    /\ rd' = Full(i, 16, n - i)
    /\ passes' = passes + 1
    /\ pc' = "chunk"
    /\ UNCHANGED <<args, n_words, ptr, intersection, union_, b8vec, differences_vec_ba,
                   i8vec, i8acc, result>>

simsimd_neon_b8_hamming_tail_enabled ==
    /\ kernel = "simsimd_neon_b8_hamming"
    /\ neon_at_tail
    /\ serial_loop_test(i, n)

simsimd_neon_b8_hamming_tail ==
    /\ simsimd_neon_b8_hamming_tail_enabled
    /\ differences' = i32_add(differences, scalar_hamming_term(a, b, i))
    /\ differences_ba' = i32_add(differences_ba, scalar_hamming_term(b, a, i))
    /\ i' = (i + 1) % Size
    /\ rd' = Scalar(i, n - i)
    /\ pc' = "tail"
    /\ UNCHANGED <<args, n_words, ptr, intersection, union_, b8vec, differences_vec_ba,
                   i8vec, i8acc, result, passes, events>>

simsimd_neon_b8_hamming_return_enabled ==
    /\ kernel = "simsimd_neon_b8_hamming"
    /\ neon_at_tail
    /\ ~serial_loop_test(i, n)

simsimd_neon_b8_hamming_return ==
    /\ simsimd_neon_b8_hamming_return_enabled
    /\ result' = f32_of_int(differences)
    /\ pc' = "done"
    /\ UNCHANGED <<args, i, n_words, ptr, b8acc, b8vec, mirror, i8vec, i8acc, passes, rd, events>>

simsimd_neon_b8_jaccard_chunk_enabled ==
    /\ kernel = "simsimd_neon_b8_jaccard"
    /\ pc \in {"start", "chunk"}
    /\ neon_loop_test(i, n)
    /\ passes < PassCap

simsimd_neon_b8_jaccard_chunk ==
    /\ simsimd_neon_b8_jaccard_chunk_enabled
    /\ \E junk \in JunkFor(i, Lanes(16)) :
         LET a_first == vld1q_u8(a, i, junk)
             b_first == vld1q_u8(b, i, junk)
         IN  /\ intersection' = i32_add(intersection, vaddvq_u8(vcntq_u8(vandq_u8(a_first, b_first))))
             /\ union_' = i32_add(union_, vaddvq_u8(vcntq_u8(vorrq_u8(a_first, b_first))))
    /\ i' = (i + 16) % Size
    /\ events' = events \cup IndexWrap(i, 16)
    /\ rd' = Full(i, 16, n - i)
    /\ passes' = passes + 1
    /\ pc' = "chunk"
    /\ UNCHANGED <<args, n_words, ptr, differences, b8vec, mirror, i8vec, i8acc, result>>

simsimd_neon_b8_jaccard_tail_enabled ==
    /\ kernel = "simsimd_neon_b8_jaccard"
    /\ neon_at_tail
    /\ serial_loop_test(i, n)

simsimd_neon_b8_jaccard_tail ==
    /\ simsimd_neon_b8_jaccard_tail_enabled
    /\ intersection' = i32_add(intersection, simsimd_popcount_b8(BitAnd(At(a, i), At(b, i))))
    /\ union_' = i32_add(union_, simsimd_popcount_b8(BitOr(At(a, i), At(b, i))))
    /\ i' = (i + 1) % Size
    /\ rd' = Scalar(i, n - i)
    /\ pc' = "tail"
    /\ UNCHANGED <<args, n_words, ptr, differences, b8vec, mirror, i8vec, i8acc,
                   result, passes, events>>

simsimd_neon_b8_jaccard_return_enabled ==
    /\ kernel = "simsimd_neon_b8_jaccard"
    /\ neon_at_tail
    /\ ~serial_loop_test(i, n)

simsimd_neon_b8_jaccard_return ==
    /\ simsimd_neon_b8_jaccard_return_enabled
    /\ result' = jaccard_result(intersection, union_)
    /\ pc' = "done"
    /\ UNCHANGED <<args, i, n_words, ptr, b8acc, b8vec, mirror, i8vec, i8acc, passes, rd, events>>

----------------------------------------------------------------------------
(* SVE *)

\* (unsigned int)x
to_unsigned_int(x) == x % UIntSize
\* svwhilelt_b8(x, y): the lanes k, counted from the first, with x + k < y.
svwhilelt_b8(x, y) == {k \in Lanes(vl) : x + k < y}
svptrue_b8 == Lanes(vl)
\* svld1_u8(pg, p + base): inactive lanes are not read and load zero.
svld1_u8(pg, p, base, junk) ==
    [k \in 1..vl |-> IF (k - 1) \in pg THEN LoadByte(p, base + k - 1, junk) ELSE 0]
\* The _m forms keep the first operand in inactive lanes.
sveor_u8_m(pg, x, y) == [k \in 1..vl |-> IF (k - 1) \in pg THEN BitXor(x[k], y[k]) ELSE x[k]]
svand_u8_m(pg, x, y) == [k \in 1..vl |-> IF (k - 1) \in pg THEN BitAnd(x[k], y[k]) ELSE x[k]]
svorr_u8_m(pg, x, y) == [k \in 1..vl |-> IF (k - 1) \in pg THEN BitOr(x[k], y[k]) ELSE x[k]]
svcnt_u8_x(pg, x) == [k \in 1..vl |-> IF (k - 1) \in pg THEN CountBits(x[k]) ELSE 0]
\* The sum of the active lanes, as the uint64_t it is returned in.
svaddv_u8(pg, x) == SumSeq([k \in 1..vl |-> IF (k - 1) \in pg THEN x[k] ELSE 0])
svcntb == vl

\* A faulty loop test that takes one pass too many when svcntb() divides n_words.
sve_loop_test_inclusive(idx, len) == idx <= len

\* do { ... i += svcntb(); } while (i < n_words);
sve_loop_test(idx, len) == idx < len

\* differences += svaddv_u8(svptrue_b8(), svcnt_u8_x(svptrue_b8(), sveor_u8_m(...)));
sve_hamming_term(pa, pb, pg_vec, base, junk) ==
    LET a_vec == svld1_u8(pg_vec, pa, base, junk)
        b_vec == svld1_u8(pg_vec, pb, base, junk)
    IN  svaddv_u8(svptrue_b8, svcnt_u8_x(svptrue_b8, sveor_u8_m(svptrue_b8, a_vec, b_vec)))

simsimd_sve_b8_hamming_pass_enabled ==
    /\ kernel = "simsimd_sve_b8_hamming"
    /\ pc \in {"start", "loop"}
    /\ passes < PassCap

simsimd_sve_b8_hamming_pass ==
    /\ simsimd_sve_b8_hamming_pass_enabled
    /\ LET pg_vec == svwhilelt_b8(to_unsigned_int(i), to_unsigned_int(n))
       IN  /\ \E junk \in JunkFor(i, pg_vec) :
                /\ differences' = i32_add(differences, sve_hamming_term(a, b, pg_vec, i, junk))
                /\ differences_ba' = i32_add(differences_ba, sve_hamming_term(b, a, pg_vec, i, junk))
           /\ rd' = Partial(i, pg_vec, vl, n - i)
    /\ i' = (i + svcntb) % Size
    /\ events' = events \cup IndexWrap(i, svcntb)
    /\ passes' = passes + 1
    /\ pc' = IF sve_loop_test(i', n) THEN "loop" ELSE "return"
    /\ UNCHANGED <<args, n_words, ptr, intersection, union_, b8vec, differences_vec_ba,
                   i8vec, i8acc, result>>

simsimd_sve_b8_hamming_return_enabled ==
    /\ kernel = "simsimd_sve_b8_hamming"
    /\ pc = "return"

simsimd_sve_b8_hamming_return ==
    /\ simsimd_sve_b8_hamming_return_enabled
    /\ result' = f32_of_int(differences)
    /\ pc' = "done"
    /\ UNCHANGED <<args, i, n_words, ptr, b8acc, b8vec, mirror, i8vec, i8acc, passes, rd, events>>

simsimd_sve_b8_jaccard_pass_enabled ==
    /\ kernel = "simsimd_sve_b8_jaccard"
    /\ pc \in {"start", "loop"}
    /\ passes < PassCap

simsimd_sve_b8_jaccard_pass ==
    /\ simsimd_sve_b8_jaccard_pass_enabled
    /\ LET pg_vec == svwhilelt_b8(to_unsigned_int(i), to_unsigned_int(n))
       IN  /\ \E junk \in JunkFor(i, pg_vec) :
                LET a_vec == svld1_u8(pg_vec, a, i, junk)
                    b_vec == svld1_u8(pg_vec, b, i, junk)
                IN  /\ intersection' = i32_add(intersection,
                         svaddv_u8(svptrue_b8, svcnt_u8_x(svptrue_b8, svand_u8_m(svptrue_b8, a_vec, b_vec))))
                    /\ union_' = i32_add(union_,
                         svaddv_u8(svptrue_b8, svcnt_u8_x(svptrue_b8, svorr_u8_m(svptrue_b8, a_vec, b_vec))))
           /\ rd' = Partial(i, pg_vec, vl, n - i)
    /\ i' = (i + svcntb) % Size
    /\ events' = events \cup IndexWrap(i, svcntb)
    /\ passes' = passes + 1
    /\ pc' = IF sve_loop_test(i', n) THEN "loop" ELSE "return"
    /\ UNCHANGED <<args, n_words, ptr, differences, b8vec, mirror, i8vec, i8acc, result>>

simsimd_sve_b8_jaccard_return_enabled ==
    /\ kernel = "simsimd_sve_b8_jaccard"
    /\ pc = "return"

simsimd_sve_b8_jaccard_return ==
    /\ simsimd_sve_b8_jaccard_return_enabled
    /\ result' = jaccard_result(intersection, union_)
    /\ pc' = "done"
    /\ UNCHANGED <<args, i, n_words, ptr, b8acc, b8vec, mirror, i8vec, i8acc, passes, rd, events>>

----------------------------------------------------------------------------
(* AVX-512 *)

\* A 64-bit mask is the set of its set bits.
AllOnes64 == Lanes(64)
\* A faulty mask that clears no bit.
_bzhi_u64_unmasked(src, index) == src

\* _bzhi_u64(src, index): src with the bits from index[7:0] upwards cleared.
_bzhi_u64(src, index) == {k \in src : k < index % 256}
_mm512_setzero_si512 == Zero(8)
_mm512_maskz_loadu_epi8(mask, p, base, junk) ==
    [k \in 1..64 |-> IF (k - 1) \in mask THEN LoadByte(p, base + k - 1, junk) ELSE 0]
_mm512_loadu_epi8(p, base, junk) == [k \in 1..64 |-> LoadByte(p, base + k - 1, junk)]
_mm512_xor_si512(x, y) == [k \in 1..64 |-> BitXor(x[k], y[k])]
_mm512_and_si512(x, y) == [k \in 1..64 |-> BitAnd(x[k], y[k])]
_mm512_or_si512(x, y) == [k \in 1..64 |-> BitOr(x[k], y[k])]
\* The set bits of each of the eight 64-bit lanes.
_mm512_popcnt_epi64(x) ==
    [l \in 1..8 |-> SumSeq([j \in 1..8 |-> CountBits(x[8 * (l - 1) + j])])]
\* 64-bit lanes; no lane of the model comes near 2^64.
_mm512_add_epi64(x, y) == [l \in 1..8 |-> x[l] + y[l]]
_mm512_reduce_add_epi64(x) == SumSeq(x)

\* if (n_words < 64) { masked loads; n_words = 0; } else { full loads; n_words -= 64; }
avx512_tail_test(len) == len < 64
\* if (n_words) goto cycle;
avx512_goto_test(len) == len # 0

\* The loads of one cycle and _mm512_popcnt_epi64(_mm512_xor_si512(a_vec, b_vec)).
avx512_hamming_term(pa, pb, tail, mask, base, junk) ==
    LET a_vec == IF tail THEN _mm512_maskz_loadu_epi8(mask, pa, base, junk)
                         ELSE _mm512_loadu_epi8(pa, base, junk)
        b_vec == IF tail THEN _mm512_maskz_loadu_epi8(mask, pb, base, junk)
                         ELSE _mm512_loadu_epi8(pb, base, junk)
        xor_vec == _mm512_xor_si512(a_vec, b_vec)
    IN  _mm512_popcnt_epi64(xor_vec)

simsimd_avx512_b8_hamming_cycle_enabled ==
    /\ kernel = "simsimd_avx512_b8_hamming"
    /\ pc \in {"start", "cycle"}

simsimd_avx512_b8_hamming_cycle ==
    /\ simsimd_avx512_b8_hamming_cycle_enabled
    /\ LET tail == avx512_tail_test(n_words)
           mask == _bzhi_u64(AllOnes64, n_words)
           read == IF tail THEN mask ELSE Lanes(64)
       IN  /\ \E junk \in JunkFor(ptr, read) :
                /\ differences_vec' = _mm512_add_epi64(differences_vec,
                                          avx512_hamming_term(a, b, tail, mask, ptr, junk))
                /\ differences_vec_ba' = _mm512_add_epi64(differences_vec_ba,
                                          avx512_hamming_term(b, a, tail, mask, ptr, junk))
           /\ rd' = IF tail THEN Partial(ptr, mask, 64, n_words) ELSE Full(ptr, 64, n_words)
           /\ n_words' = IF tail THEN 0 ELSE (n_words - 64) % Size
           /\ ptr' = IF tail THEN ptr ELSE ptr + 64
    /\ passes' = passes + 1
    /\ pc' = IF avx512_goto_test(n_words') THEN "cycle" ELSE "return"
    /\ UNCHANGED <<args, i, b8acc, intersection_vec, union_vec, differences_ba,
                   i8vec, i8acc, result, events>>

simsimd_avx512_b8_hamming_return_enabled ==
    /\ kernel = "simsimd_avx512_b8_hamming"
    /\ pc = "return"

simsimd_avx512_b8_hamming_return ==
    /\ simsimd_avx512_b8_hamming_return_enabled
    /\ differences' = _mm512_reduce_add_epi64(differences_vec)
    /\ differences_ba' = _mm512_reduce_add_epi64(differences_vec_ba)
    /\ result' = f32_of_int(differences')
    /\ pc' = "done"
    /\ UNCHANGED <<args, i, n_words, ptr, intersection, union_, b8vec, differences_vec_ba,
                   i8vec, i8acc, passes, rd, events>>

simsimd_avx512_b8_jaccard_cycle_enabled ==
    /\ kernel = "simsimd_avx512_b8_jaccard"
    /\ pc \in {"start", "cycle"}

simsimd_avx512_b8_jaccard_cycle ==
    /\ simsimd_avx512_b8_jaccard_cycle_enabled
    /\ LET tail == avx512_tail_test(n_words)
           mask == _bzhi_u64(AllOnes64, n_words)
           read == IF tail THEN mask ELSE Lanes(64)
       IN  /\ \E junk \in JunkFor(ptr, read) :
                LET a_vec == IF tail THEN _mm512_maskz_loadu_epi8(mask, a, ptr, junk)
                                     ELSE _mm512_loadu_epi8(a, ptr, junk)
                    b_vec == IF tail THEN _mm512_maskz_loadu_epi8(mask, b, ptr, junk)
                                     ELSE _mm512_loadu_epi8(b, ptr, junk)
                    and_vec == _mm512_and_si512(a_vec, b_vec)
                    or_vec == _mm512_or_si512(a_vec, b_vec)
                IN  /\ intersection_vec' = _mm512_add_epi64(intersection_vec, _mm512_popcnt_epi64(and_vec))
                    /\ union_vec' = _mm512_add_epi64(union_vec, _mm512_popcnt_epi64(or_vec))
           /\ rd' = IF tail THEN Partial(ptr, mask, 64, n_words) ELSE Full(ptr, 64, n_words)
           /\ n_words' = IF tail THEN 0 ELSE (n_words - 64) % Size
           /\ ptr' = IF tail THEN ptr ELSE ptr + 64
    /\ passes' = passes + 1
    /\ pc' = IF avx512_goto_test(n_words') THEN "cycle" ELSE "return"
    /\ UNCHANGED <<args, i, b8acc, differences_vec, mirror, i8vec, i8acc, result, events>>

simsimd_avx512_b8_jaccard_return_enabled ==
    /\ kernel = "simsimd_avx512_b8_jaccard"
    /\ pc = "return"

simsimd_avx512_b8_jaccard_return ==
    /\ simsimd_avx512_b8_jaccard_return_enabled
    /\ intersection' = _mm512_reduce_add_epi64(intersection_vec)
    /\ union_' = _mm512_reduce_add_epi64(union_vec)
    /\ result' = jaccard_result(intersection', union_')
    /\ pc' = "done"
    /\ UNCHANGED <<args, i, n_words, ptr, differences, b8vec, mirror, i8vec, i8acc,
                   passes, rd, events>>

----------------------------------------------------------------------------
(* x86_avx2_i8.h.  A __m256i is 32 bytes, a __m128i 16; a 16-bit lane is   *)
(* two of them, a 32-bit lane four, least significant first.               *)

\* The unsigned 16-bit lane j (from 0) of a register, and its 32-bit lane l
\* as the pair <<low half, high half>>.
Word16(x, j) == x[2 * j + 1] + 256 * x[2 * j + 2]
Lane32(x, l) == <<Word16(x, 2 * l), Word16(x, 2 * l + 1)>>
\* The signed value of a 32-bit lane.
Signed32(w) == IF w[2] < 32768 THEN w[2] * 65536 + w[1] ELSE (w[2] - 65536) * 65536 + w[1]
\* Addition modulo 2^32.
AddLane32(v, w) == <<(v[1] + w[1]) % 65536, (v[2] + w[2] + (v[1] + w[1]) \div 65536) % 65536>>
\* The register whose 32-bit lanes are the pairs of ws.
FromLanes32(ws) ==
    [k \in 1..(4 * Len(ws)) |->
        LET w == ws[(k - 1) \div 4 + 1]
            r == (k - 1) % 4
        IN  IF r = 0 THEN w[1] % 256
            ELSE IF r = 1 THEN w[1] \div 256
            ELSE IF r = 2 THEN w[2] % 256
            ELSE w[2] \div 256]
\* The register whose 16-bit lanes hold the signed values of ts.
FromInts16(ts) ==
    [k \in 1..(2 * Len(ts)) |->
        LET w == ts[(k - 1) \div 2 + 1] % 65536
        IN  IF (k - 1) % 2 = 0 THEN w % 256 ELSE w \div 256]
Saturate16(t) == IF t > 32767 THEN 32767 ELSE IF t < -32768 THEN -32768 ELSE t

_mm256_setzero_si256 == Zero(32)
_mm256_loadu_si256(p, base, junk) == [k \in 1..32 |-> LoadByte(p, base + k - 1, junk)]
\* 8-bit lanes, subtraction modulo 2^8.
_mm256_sub_epi8(x, y) == [k \in 1..32 |-> (x[k] - y[k]) % 256]
\* Each byte of x as unsigned times the byte of y as signed; adjacent
\* products added with signed saturation into the 16-bit lanes.
MaddubsSums(x, y) ==
    [j \in 1..16 |-> x[2 * j - 1] * ToInt8(y[2 * j - 1]) + x[2 * j] * ToInt8(y[2 * j])]
_mm256_maddubs_epi16(x, y) ==
    FromInts16([j \in 1..16 |-> Saturate16(MaddubsSums(x, y)[j])])
\* 32-bit lanes, addition modulo 2^32: the operands are taken as they lie.
_mm256_add_epi32(x, y) == FromLanes32([l \in 1..8 |-> AddLane32(Lane32(x, l - 1), Lane32(y, l - 1))])
_mm256_extracti128_si256(x, imm) == [k \in 1..16 |-> x[16 * imm + k]]
_mm_add_epi32(x, y) == FromLanes32([l \in 1..4 |-> AddLane32(Lane32(x, l - 1), Lane32(y, l - 1))])
_mm_hadd_epi32(x, y) ==
    FromLanes32(<<AddLane32(Lane32(x, 0), Lane32(x, 1)), AddLane32(Lane32(x, 2), Lane32(x, 3)),
                  AddLane32(Lane32(y, 0), Lane32(y, 1)), AddLane32(Lane32(y, 2), Lane32(y, 3))>>)
_mm_extract_epi32(x, imm) == Signed32(Lane32(x, imm))

\* Horizontal sum across the 256-bit register (lines 33-36, 69-84).
horizontal_sum(vec) ==
    LET low == _mm256_extracti128_si256(vec, 0)
        high == _mm256_extracti128_si256(vec, 1)
        partial == _mm_add_epi32(low, high)
    IN  _mm_extract_epi32(_mm_hadd_epi32(_mm_hadd_epi32(partial, partial), partial), 0)

\* What left its width in one vector pass or reduction.
Sub8Events(x, y) ==
    IF \E k \in 1..32 : ToInt8(x[k]) - ToInt8(y[k]) \notin -128..127
      THEN {"sub_epi8_wrap"} ELSE {}
MaddubsEvents(x, y) ==
    IF \E j \in 1..16 : MaddubsSums(x, y)[j] \notin -32768..32767
      THEN {"maddubs_saturate"} ELSE {}
Add32Events(x, y, lanes) ==
    IF \E l \in 0..(lanes - 1) : AddOverflows32(Signed32(Lane32(x, l)), Signed32(Lane32(y, l)))
      THEN {"i32_overflow"} ELSE {}
HorizontalEvents(vec) ==
    LET low == _mm256_extracti128_si256(vec, 0)
        high == _mm256_extracti128_si256(vec, 1)
        partial == _mm_add_epi32(low, high)
        s01 == AddLane32(Lane32(partial, 0), Lane32(partial, 1))
        s23 == AddLane32(Lane32(partial, 2), Lane32(partial, 3))
    IN  IF \/ Add32Events(low, high, 4) # {}
           \/ AddOverflows32(Signed32(Lane32(partial, 0)), Signed32(Lane32(partial, 1)))
           \/ AddOverflows32(Signed32(Lane32(partial, 2)), Signed32(Lane32(partial, 3)))
           \/ AddOverflows32(Signed32(s01), Signed32(s23))
          THEN {"i32_overflow"} ELSE {}
ScalarAddEvents(x, y) == IF AddOverflows32(x, y) THEN {"i32_overflow"} ELSE {}

\* for (; i + 31 < d; i += 32), in simsimd_size_t arithmetic
avx2_loop_test(idx, len) == (idx + 31) % Size < len
\* for (; i < d; ++i)
avx2_tail_test(idx, len) == idx < len

simsimd_avx2_i8_l2sq_chunk_enabled ==
    /\ kernel = "simsimd_avx2_i8_l2sq"
    /\ pc \in {"start", "chunk"}
    /\ avx2_loop_test(i, n)

simsimd_avx2_i8_l2sq_chunk ==
    /\ simsimd_avx2_i8_l2sq_chunk_enabled
    /\ \E junk \in JunkFor(i, Lanes(32)) :
         LET a_vec == _mm256_loadu_si256(a, i, junk)
             b_vec == _mm256_loadu_si256(b, i, junk)
             d_vec == _mm256_sub_epi8(a_vec, b_vec)
             d_vec16 == _mm256_maddubs_epi16(d_vec, d_vec)
         IN  /\ d2_vec' = _mm256_add_epi32(d2_vec, d_vec16)
             /\ events' = events \cup IndexWrap(i, 31) \cup Sub8Events(a_vec, b_vec)
                            \cup MaddubsEvents(d_vec, d_vec) \cup Add32Events(d2_vec, d_vec16, 8)
    /\ i' = (i + 32) % Size
    /\ rd' = Full(i, 32, n - i)
    /\ passes' = passes + 1
    /\ pc' = "chunk"
    /\ UNCHANGED <<args, n_words, ptr, b8acc, b8vec, mirror, ab_vec, a2_vec, b2_vec, i8acc, result>>

simsimd_avx2_i8_l2sq_reduce_enabled ==
    /\ kernel = "simsimd_avx2_i8_l2sq"
    /\ pc \in {"start", "chunk"}
    /\ ~avx2_loop_test(i, n)

simsimd_avx2_i8_l2sq_reduce ==
    /\ simsimd_avx2_i8_l2sq_reduce_enabled
    /\ d2' = horizontal_sum(d2_vec)
    /\ events' = events \cup HorizontalEvents(d2_vec)
    /\ pc' = "tail"
    /\ UNCHANGED <<args, i, n_words, ptr, b8acc, b8vec, mirror, i8vec, ab, a2, b2, result, passes, rd>>

simsimd_avx2_i8_l2sq_tail_enabled ==
    /\ kernel = "simsimd_avx2_i8_l2sq"
    /\ pc = "tail"
    /\ avx2_tail_test(i, n)

simsimd_avx2_i8_l2sq_tail ==
    /\ simsimd_avx2_i8_l2sq_tail_enabled
    /\ LET d == At(a, i) - At(b, i)
       IN  /\ d2' = Add32(d2, d * d)
           /\ events' = events \cup ScalarAddEvents(d2, d * d)
    /\ i' = (i + 1) % Size
    /\ rd' = Scalar(i, n - i)
    /\ UNCHANGED <<args, pc, n_words, ptr, b8acc, b8vec, mirror, i8vec, ab, a2, b2, result, passes>>

simsimd_avx2_i8_l2sq_return_enabled ==
    /\ kernel = "simsimd_avx2_i8_l2sq"
    /\ pc = "tail"
    /\ ~avx2_tail_test(i, n)

simsimd_avx2_i8_l2sq_return ==
    /\ simsimd_avx2_i8_l2sq_return_enabled
    /\ result' = f32_of_int(d2)
    /\ pc' = "done"
    /\ UNCHANGED <<args, i, n_words, ptr, b8acc, b8vec, mirror, i8vec, i8acc, passes, rd, events>>

\* return simsimd_avx2_i8_cos(a, b, d);
simsimd_avx2_i8_ip_enabled ==
    /\ kernel = "simsimd_avx2_i8_ip"
    /\ pc = "start"

simsimd_avx2_i8_ip ==
    /\ simsimd_avx2_i8_ip_enabled
    /\ pc' = "call"
    /\ UNCHANGED <<args, i, n_words, ptr, b8acc, b8vec, mirror, i8vec, i8acc, result, passes, rd, events>>

\* The body of simsimd_avx2_i8_cos is running, before its first reduction.
cos_in_loop ==
    \/ kernel = "simsimd_avx2_i8_cos" /\ pc \in {"start", "chunk"}
    \/ kernel = "simsimd_avx2_i8_ip" /\ pc \in {"call", "chunk"}
cos_in_tail == kernel \in {"simsimd_avx2_i8_cos", "simsimd_avx2_i8_ip"} /\ pc = "tail"

simsimd_avx2_i8_cos_chunk_enabled ==
    /\ cos_in_loop
    /\ avx2_loop_test(i, n)

simsimd_avx2_i8_cos_chunk ==
    /\ simsimd_avx2_i8_cos_chunk_enabled
    /\ \E junk \in JunkFor(i, Lanes(32)) :
         LET a_vec == _mm256_loadu_si256(a, i, junk)
             b_vec == _mm256_loadu_si256(b, i, junk)
             ab_part_vec == _mm256_maddubs_epi16(a_vec, b_vec)
             a2_part_vec == _mm256_maddubs_epi16(a_vec, a_vec)
             b2_part_vec == _mm256_maddubs_epi16(b_vec, b_vec)
         IN  /\ ab_vec' = _mm256_add_epi32(ab_vec, ab_part_vec)
             /\ a2_vec' = _mm256_add_epi32(a2_vec, a2_part_vec)
             /\ b2_vec' = _mm256_add_epi32(b2_vec, b2_part_vec)
             /\ events' = events \cup IndexWrap(i, 31)
                            \cup MaddubsEvents(a_vec, b_vec) \cup MaddubsEvents(a_vec, a_vec)
                            \cup MaddubsEvents(b_vec, b_vec)
                            \cup Add32Events(ab_vec, ab_part_vec, 8)
                            \cup Add32Events(a2_vec, a2_part_vec, 8)
                            \cup Add32Events(b2_vec, b2_part_vec, 8)
    /\ i' = (i + 32) % Size
    /\ rd' = Full(i, 32, n - i)
    /\ passes' = passes + 1
    /\ pc' = "chunk"
    /\ UNCHANGED <<args, n_words, ptr, b8acc, b8vec, mirror, d2_vec, i8acc, result>>

simsimd_avx2_i8_cos_reduce_enabled ==
    /\ cos_in_loop
    /\ ~avx2_loop_test(i, n)

simsimd_avx2_i8_cos_reduce ==
    /\ simsimd_avx2_i8_cos_reduce_enabled
    /\ ab' = horizontal_sum(ab_vec)
    /\ a2' = horizontal_sum(a2_vec)
    /\ b2' = horizontal_sum(b2_vec)
    /\ events' = events \cup HorizontalEvents(ab_vec) \cup HorizontalEvents(a2_vec)
                   \cup HorizontalEvents(b2_vec)
    /\ pc' = "tail"
    /\ UNCHANGED <<args, i, n_words, ptr, b8acc, b8vec, mirror, i8vec, d2, result, passes, rd>>

simsimd_avx2_i8_cos_tail_enabled ==
    /\ cos_in_tail
    /\ avx2_tail_test(i, n)

simsimd_avx2_i8_cos_tail ==
    /\ simsimd_avx2_i8_cos_tail_enabled
    /\ LET ai == At(a, i)
           bi == At(b, i)
       IN  /\ ab' = Add32(ab, ai * bi)
           /\ a2' = Add32(a2, ai * ai)
           /\ b2' = Add32(b2, bi * bi)
           /\ events' = events \cup ScalarAddEvents(ab, ai * bi)
                          \cup ScalarAddEvents(a2, ai * ai) \cup ScalarAddEvents(b2, bi * bi)
    /\ i' = (i + 1) % Size
    /\ rd' = Scalar(i, n - i)
    /\ UNCHANGED <<args, pc, n_words, ptr, b8acc, b8vec, mirror, i8vec, d2, result, passes>>

\* return 1 - ab * simsimd_approximate_inverse_square_root(a2 * b2);
\* The value is kept as the integers it is computed from.
simsimd_avx2_i8_cos_return_enabled ==
    /\ cos_in_tail
    /\ ~avx2_tail_test(i, n)

simsimd_avx2_i8_cos_return ==
    /\ simsimd_avx2_i8_cos_return_enabled
    /\ result' = [ab |-> ab, a2 |-> a2, b2 |-> b2]
    /\ events' = events \cup (IF MulOverflows32(a2, b2) THEN {"a2_b2_overflow"} ELSE {})
    /\ pc' = "done"
    /\ UNCHANGED <<args, i, n_words, ptr, b8acc, b8vec, mirror, i8vec, i8acc, passes, rd>>

----------------------------------------------------------------------------
Next ==
    \/ simsimd_serial_b8_hamming_step
    \/ simsimd_serial_b8_hamming_return
    \/ simsimd_serial_b8_jaccard_step
    \/ simsimd_serial_b8_jaccard_return
    \/ simsimd_neon_b8_hamming_chunk
    \/ simsimd_neon_b8_hamming_tail
    \/ simsimd_neon_b8_hamming_return
    \/ simsimd_neon_b8_jaccard_chunk
    \/ simsimd_neon_b8_jaccard_tail
    \/ simsimd_neon_b8_jaccard_return
    \/ simsimd_sve_b8_hamming_pass
    \/ simsimd_sve_b8_hamming_return
    \/ simsimd_sve_b8_jaccard_pass
    \/ simsimd_sve_b8_jaccard_return
    \/ simsimd_avx512_b8_hamming_cycle
    \/ simsimd_avx512_b8_hamming_return
    \/ simsimd_avx512_b8_jaccard_cycle
    \/ simsimd_avx512_b8_jaccard_return
    \/ simsimd_avx2_i8_l2sq_chunk
    \/ simsimd_avx2_i8_l2sq_reduce
    \/ simsimd_avx2_i8_l2sq_tail
    \/ simsimd_avx2_i8_l2sq_return
    \/ simsimd_avx2_i8_ip
    \/ simsimd_avx2_i8_cos_chunk
    \/ simsimd_avx2_i8_cos_reduce
    \/ simsimd_avx2_i8_cos_tail
    \/ simsimd_avx2_i8_cos_return

\* Some step of the call can be taken.
SomeStepEnabled ==
    \/ simsimd_serial_b8_hamming_step_enabled
    \/ simsimd_serial_b8_hamming_return_enabled
    \/ simsimd_serial_b8_jaccard_step_enabled
    \/ simsimd_serial_b8_jaccard_return_enabled
    \/ simsimd_neon_b8_hamming_chunk_enabled
    \/ simsimd_neon_b8_hamming_tail_enabled
    \/ simsimd_neon_b8_hamming_return_enabled
    \/ simsimd_neon_b8_jaccard_chunk_enabled
    \/ simsimd_neon_b8_jaccard_tail_enabled
    \/ simsimd_neon_b8_jaccard_return_enabled
    \/ simsimd_sve_b8_hamming_pass_enabled
    \/ simsimd_sve_b8_hamming_return_enabled
    \/ simsimd_sve_b8_jaccard_pass_enabled
    \/ simsimd_sve_b8_jaccard_return_enabled
    \/ simsimd_avx512_b8_hamming_cycle_enabled
    \/ simsimd_avx512_b8_hamming_return_enabled
    \/ simsimd_avx512_b8_jaccard_cycle_enabled
    \/ simsimd_avx512_b8_jaccard_return_enabled
    \/ simsimd_avx2_i8_l2sq_chunk_enabled
    \/ simsimd_avx2_i8_l2sq_reduce_enabled
    \/ simsimd_avx2_i8_l2sq_tail_enabled
    \/ simsimd_avx2_i8_l2sq_return_enabled
    \/ simsimd_avx2_i8_ip_enabled
    \/ simsimd_avx2_i8_cos_chunk_enabled
    \/ simsimd_avx2_i8_cos_reduce_enabled
    \/ simsimd_avx2_i8_cos_tail_enabled
    \/ simsimd_avx2_i8_cos_return_enabled

Spec == Init /\ [][Next]_vars

----------------------------------------------------------------------------
(* What the kernels are to compute: sums over the elements 0 .. len-1 of   *)
(* the operands, in unbounded integers.                                    *)

Term(which, idx) ==
    CASE which = "xor" -> CountBits(BitXor(At(a, idx), At(b, idx)))
      [] which = "and" -> CountBits(BitAnd(At(a, idx), At(b, idx)))
      [] which = "or" -> CountBits(BitOr(At(a, idx), At(b, idx)))
      [] which = "sq" -> (At(a, idx) - At(b, idx)) * (At(a, idx) - At(b, idx))
      [] which = "ab" -> At(a, idx) * At(b, idx)
      [] which = "aa" -> At(a, idx) * At(a, idx)
      [] which = "bb" -> At(b, idx) * At(b, idx)

RECURSIVE SumOver(_, _)
SumOver(which, len) == IF len = 0 THEN 0 ELSE Term(which, len - 1) + SumOver(which, len - 1)

Done == pc = "done"
CeilDiv(x, w) == (x + w - 1) \div w
Max(x, y) == IF x > y THEN x ELSE y

----------------------------------------------------------------------------
\* C1: when simsimd_avx2_i8_l2sq returns, its integer d2 is the sum over
\* i in [0, d) of (a[i] - b[i])^2, for every length and elements of either
\* sign: the vector passes and the scalar tail each contribute exactly the
\* squared differences of the elements they cover.
C1_L2sqIsSumOfSquares ==
    (kernel = "simsimd_avx2_i8_l2sq" /\ Done) =>
        /\ d2 = SumOver("sq", n)
        /\ result = f32_of_int(SumOver("sq", n))

\* C2: when a Hamming kernel (serial, NEON, SVE, AVX-512) returns, its count
\* is the sum over i in [0, n) of popcount(a[i] XOR b[i]), which is the count
\* of simsimd_serial_b8_hamming, for every word count n.
C2_HammingEqualsSerial ==
    (kernel \in HammingKernels /\ Done) =>
        /\ differences = SumOver("xor", n)
        /\ result = f32_of_int(SumOver("xor", n))

\* C3: when a Jaccard kernel returns, its pair (intersection, union) is the
\* pair of sums of popcount(a[i] AND b[i]) and popcount(a[i] OR b[i]) over
\* i in [0, n), and it returns 0 if that union is 0 and 1 - intersection/union
\* otherwise.
C3_JaccardEqualsSerial ==
    (kernel \in JaccardKernels /\ Done) =>
        /\ intersection = SumOver("and", n)
        /\ union_ = SumOver("or", n)
        /\ result = jaccard_result(SumOver("and", n), SumOver("or", n))

\* C4: when simsimd_avx2_i8_cos or simsimd_avx2_i8_ip returns, the integers
\* ab, a2 and b2 it normalises are the sums over i in [0, d) of a[i]*b[i],
\* a[i]*a[i] and b[i]*b[i].
C4_CosSumsAreDotProducts ==
    (kernel \in {"simsimd_avx2_i8_cos", "simsimd_avx2_i8_ip"} /\ Done) =>
        /\ ab = SumOver("ab", n)
        /\ a2 = SumOver("aa", n)
        /\ b2 = SumOver("bb", n)
        /\ result = [ab |-> SumOver("ab", n), a2 |-> SumOver("aa", n), b2 |-> SumOver("bb", n)]

\* C5: the integer d2 that simsimd_avx2_i8_l2sq converts to its result is
\* never negative, and it is 0 when both operands are the same vector.
C5_L2sqNonNegative ==
    (kernel = "simsimd_avx2_i8_l2sq" /\ Done) =>
        /\ d2 >= 0
        /\ a = b => d2 = 0

\* C6: in the int8 kernels, for every length d >= 1, no integer intermediate
\* leaves its width: no 8-bit difference wraps, no 16-bit multiply-add lane
\* saturates, no 32-bit accumulator overflows, and a2 * b2 fits in 32 bits.
C6_NoIntermediateLeavesItsWidth ==
    (kernel \in Avx2Kernels /\ n >= 1) =>
        events \cap {"sub_epi8_wrap", "maddubs_saturate", "i32_overflow", "a2_b2_overflow"} = {}

\* The value of a float held as significand and unit in the last place.
F32Value(f) == f.sig * f.ulp

\* C7: when a Jaccard kernel returns, 0 <= intersection <= union <= 8 * n, so
\* the result 1 - intersection/union lies in [0, 1]; with both operands the
\* same vector intersection = union and the result is 0; and when the union
\* is 0 (both operands all zero, or n = 0) it returns 0 without dividing.
\* The simsimd_i32_t counters of the serial, NEON and SVE kernels pass their
\* top once the union has more bits than they hold, and the range is lost.
C7_JaccardRange ==
    (kernel \in JaccardKernels /\ Done) =>
        /\ 0 <= intersection /\ intersection <= union_ /\ union_ <= 8 * n
        /\ result.divided => /\ F32Value(result.den) > 0
                             /\ 0 <= F32Value(result.num)
                             /\ F32Value(result.num) <= F32Value(result.den)
        /\ a = b => /\ intersection = union_
                    /\ result.divided => F32Value(result.num) = F32Value(result.den)
        /\ result.divided <=> union_ # 0
        /\ ((a = <<0>> /\ b = <<0>>) \/ n = 0) => (union_ = 0 /\ ~result.divided)

\* C8: when a Hamming kernel returns, its count is the count of the same
\* kernel called on (b, a, n); it is 0 when both operands are the same
\* vector; and it is 32 for a = FF 00 FF 00 FF 00 FF 00, b = 0, n = 8.
C8_HammingSymmetric ==
    (kernel \in HammingKernels /\ Done) =>
        /\ differences = differences_ba
        /\ a = b => differences = 0
        /\ (a = <<255, 0>> /\ b = <<0>> /\ n = 8) =>
               (differences = 32 /\ result = [sig |-> 32, ulp |-> 1])
C8_Witness ==
    /\ kernel = "simsimd_neon_b8_hamming" /\ Done
    /\ n = 35 /\ a = <<165, 15, 128>> /\ b = <<1, 254, 60, 255, 7>>
    /\ differences > 0 /\ differences = differences_ba

\* The passes a kernel's vector loop makes over n elements.
ExpectedPasses ==
    IF kernel \in NeonKernels THEN n \div 16
    ELSE IF kernel \in Avx2Kernels THEN n \div 32
    ELSE IF kernel \in SveKernels THEN Max(1, CeilDiv(n, vl))
    ELSE IF kernel \in Avx512Kernels THEN Max(1, CeilDiv(n, 64))
    ELSE 0
\* The steps a call has left: its vector passes, its scalar passes, and one
\* each for a call, a reduction and the return still to come.
StepsLeft ==
    IF Done THEN 0
    ELSE IF kernel \in SerialKernels THEN (n - i) + 1
    ELSE IF kernel \in NeonKernels THEN ((n - i) \div 16) + ((n - i) % 16) + 1
    ELSE IF kernel \in Avx2Kernels
      THEN ((n - i) \div 32) + ((n - i) % 32) + 1
             + (IF pc = "tail" THEN 0 ELSE 1) + (IF pc = "start" /\ kernel = "simsimd_avx2_i8_ip" THEN 1 ELSE 0)
    ELSE IF pc = "return" THEN 1
    ELSE (ExpectedPasses - passes) + 1
RunsToCompletion ==
    /\ "index_wrap" \notin events
    /\ passes <= ExpectedPasses
    /\ StepsLeft >= 0
    /\ Done => passes = ExpectedPasses
    /\ (Done /\ kernel \notin SveKernels \cup Avx512Kernels) => i = n
    /\ ~Done => SomeStepEnabled

\* C9 as claimed: for every length n of the size type every kernel runs to
\* its return (a step can be taken until it has returned, and it has no more
\* than ExpectedPasses vector passes to take), its index arithmetic never
\* wraps, the indexed loops end at i = n, and the AVX-512 and SVE loops make
\* exactly max(1, ceil(n / W)) passes.
C9_EveryLengthRunsToCompletion == RunsToCompletion

\* The lengths whose index arithmetic stays below the top of the size type.
BelowWrap ==
    /\ kernel \in NeonKernels => n <= SIZE_MAX - 16
    /\ kernel \in SveKernels => n <= SIZE_MAX + 1 - vl

\* C9 as amended: the same holds for the lengths n <= SIZE_MAX - 16 in the
\* NEON kernels and n <= SIZE_MAX + 1 - svcntb() in the SVE kernels, and for
\* every length in the others; and every step of such a call leaves one step
\* fewer to take, so the call returns after StepsLeft steps.
C9_RunsToCompletionBelowWrap ==
    /\ [](BelowWrap => RunsToCompletion)
    /\ [][BelowWrap => StepsLeft' = StepsLeft - 1]_vars
C9_Witness ==
    /\ kernel = "simsimd_sve_b8_hamming" /\ Done
    /\ vl = 16 /\ n = 32 /\ passes = 2 /\ i = 32

\* C10: with operands that exist (n <= PTRDIFF_MAX elements each), every pass
\* loads only elements with index in [0, n): a full-width load is issued only
\* with a whole chunk left, the AVX-512 tail mask is exactly the low n_words
\* (< 64) bits, the SVE predicate holds only lanes with offset + lane < n, and
\* the scalar loops index only i < n.
C10_LoadsStayInside ==
    n <= PTRDIFF_MAX =>
        /\ \A k \in rd.lanes : rd.base + k < n
        /\ rd.kind = "full" => (rd.width \in {16, 32, 64} /\ rd.rem >= rd.width)
        /\ (rd.kind = "partial" /\ kernel \in Avx512Kernels) =>
               (rd.rem < 64 /\ rd.lanes = {k \in 0..63 : k < rd.rem} /\ rd.base + rd.rem = n)
        /\ (rd.kind = "partial" /\ kernel \in SveKernels) =>
               rd.lanes \subseteq {k \in Lanes(vl) : rd.base + k < n}
        /\ rd.kind = "scalar" => rd.base < n
C10_Witness ==
    /\ kernel = "simsimd_avx512_b8_hamming"
    /\ n = 131 /\ rd.kind = "partial" /\ rd.base = 128 /\ rd.lanes = {0, 1, 2}
=============================================================================
